---- MODULE Spec2Model ----
(***************************************************************************)
(* Model of the timelapse-colorizer dataset converters                     *)
(* (scripts/timelapse-colorizer-data): remap_segmented_image and           *)
(* ColorizerDatasetWriter of data_writer_utils.py, driven by make_dataset  *)
(* and make_frames of convert_nucmorph_data.py and                         *)
(* convert_emt_migration_data.py.                                          *)
(*                                                                         *)
(* Images are 2-D integer arrays.  An image is held block-compressed: its  *)
(* rows are cut into consecutive row blocks and its columns into           *)
(* consecutive column blocks, every pixel of one block pair carrying the   *)
(* same value.  rowHi[r] / colHi[c] is the last row / column of block r /  *)
(* c, block 1 starts at 0, so the array has shape                          *)
(* (rowHi[last] + 1, colHi[last] + 1).  This lets an image wider than      *)
(* 65,535 pixels be a value of the model.                                  *)
(*                                                                         *)
(* Machine integers: the bounding-box table is numpy ushort (values are    *)
(* kept modulo 2^16, the unsafe cast numpy 1.x applies on assignment), the *)
(* image channels are uint8.  The LUT is uint32; its values stay far below *)
(* 2^31 in the pipeline, the 24-bit boundary is exercised by SpecEncode.   *)
(***************************************************************************)
EXTENDS Integers, Sequences, FiniteSets, TLC

VARIABLES
    variant,        \* converter script: "nucmorph" or "emt"
    do_frames,      \* make_dataset(do_frames=...)
    table,          \* reduced_dataset after reset_index: row i has initialIndex i - 1
    pc,             \* position of make_dataset / of the call under study
    todo,           \* frame groups make_frames has not processed yet (ascending)
    sub,            \* position inside the body of the make_frames loop
    seg2d,          \* decoded, scaled label image of the current frame
    lut,            \* LUT returned by remap_segmented_image for the current frame
    seg_remapped,   \* remapped image of the current frame
    bbox_data,      \* writer.bbox_data (None is the empty function)
    files,          \* names of the files present in the dataset directory
    bounds_json,    \* "data" of bounds.json on storage
    frame_png,      \* contents of the frame_<n>.png files on storage
    manifest_json,  \* contents of manifest.json on storage
    margs,          \* arguments of the write_manifest call
    luts,           \* the LUT remap_segmented_image returned for each frame so far
    raised,         \* "" or the step of make_frames whose exception ended the run
    fargs,          \* arguments of the write_feature_data call (and writer.scale)
    fi,             \* index i of the feature loop of write_feature_data
    series_json,    \* contents of outliers, tracks, times, centroids, feature_<i>.json
    coll,           \* update_collection: the collection file and the call on it
    td,             \* generate_test_data.make_dataset: its locals and its output
    perm            \* two writers fed the same frames in opposite orders

vars == <<variant, do_frames, table, pc, todo, sub, seg2d, lut, seg_remapped,
          bbox_data, files, bounds_json, frame_png, manifest_json, margs, luts,
          raised, fargs, fi, series_json, coll, td, perm>>

----------------------------------------------------------------------------
(* Bounds of the model. *)

NumRecords == 2     \* N: object records of the dataset
MaxLabel == 2       \* largest local label of a table row or an image pixel
MaxFeatures == 2    \* longest feature name / metadata list given to write_manifest
MaxManFrames == 3   \* largest num_frames given to write_manifest
EncSpan == 12       \* ids sampled above each byte boundary by SpecEncode
BigCoord == 65536   \* last column of the widest image (65,537 pixels wide)
MaxColl == 2        \* longest collection file update_collection starts from
MaxCalls == 2       \* update_collection calls made one after the other

(* Program constants. *)

RESERVED_INDICES == 1
USHORT == 65536     \* np.ushort holds values modulo 2^16
UINT8 == 256        \* np.uint8 holds values modulo 2^8

FrameIdx == {0, 1}  \* values of the TIMES_COLUMN

None == <<>>
NoImage == [rowHi |-> <<>>, colHi |-> <<>>, val |-> <<>>]
NoManifest == [absent |-> TRUE]
NoArgs == [num_frames |-> 0, feature_names |-> <<>>, feature_metadata |-> <<>>]
AbsentFile == [kind |-> "absent", items |-> <<>>]
NoColl == [file |-> AbsentFile, prev |-> AbsentFile, name |-> "", path |-> "", calls |-> 0]
NoTd ==
    [pc |-> "off", nframes |-> 0, nfeatures |-> 0, i |-> 0, track |-> 0, k |-> 0,
     objects |-> <<>>, bbox_data |-> <<>>, files |-> {}, bounds_json |-> <<>>]
NoPerm == [frames |-> <<>>, fwd |-> None, bwd |-> None, k |-> 0]
NoFeatureArgs ==
    [features |-> <<>>, tracks |-> <<>>, times |-> <<>>, centroids_x |-> <<>>,
     centroids_y |-> <<>>, outliers |-> <<>>, scale |-> [num |-> 1, den |-> 1]]

----------------------------------------------------------------------------
(* Helpers. *)

SetMax(S) == CHOOSE m \in S : \A x \in S : x <= m
SetMin(S) == CHOOSE m \in S : \A x \in S : m <= x

RECURSIVE SortedSeq(_)
SortedSeq(S) == IF S = {} THEN <<>> ELSE <<SetMin(S)>> \o SortedSeq(S \ {SetMin(S)})

RECURSIVE BitAnd(_, _)
BitAnd(a, b) ==
    IF a = 0 \/ b = 0 THEN 0
    ELSE (a % 2) * (b % 2) + 2 * BitAnd(a \div 2, b \div 2)

ShiftRight(a, n) == a \div (2 ^ n)

SeqsUpTo(S, n) == UNION {[1..k -> S] : k \in 0..n}

Range(f) == {f[k] : k \in DOMAIN f}

----------------------------------------------------------------------------
(* Images. *)

RowBlocks(img) == 1..Len(img.rowHi)
ColBlocks(img) == 1..Len(img.colHi)
Blocks(img) == RowBlocks(img) \X ColBlocks(img)
RowLo(img, r) == IF r = 1 THEN 0 ELSE img.rowHi[r - 1] + 1
ColLo(img, c) == IF c = 1 THEN 0 ELSE img.colHi[c - 1] + 1
Shape(img) == <<img.rowHi[Len(img.rowHi)] + 1, img.colHi[Len(img.colHi)] + 1>>
Values(img) == {img.val[b[1]][b[2]] : b \in Blocks(img)}

Layouts ==
    { [rowHi |-> <<0>>, colHi |-> <<0, 1>>],         \* 1 x 2
      [rowHi |-> <<0, 1>>, colHi |-> <<0>>],         \* 2 x 1
      [rowHi |-> <<0>>, colHi |-> <<0, BigCoord>>] } \* 1 x 65,537

ImagesOver(V) ==
    UNION { { [rowHi |-> l.rowHi, colHi |-> l.colHi, val |-> v] :
                v \in [1..Len(l.rowHi) -> [1..Len(l.colHi) -> V]] } :
            l \in Layouts }

LabelImages == ImagesOver(0..MaxLabel)

----------------------------------------------------------------------------
(* The table (reduced_dataset) and its grouping by frame. *)

Rows == 1..NumRecords
InitialIndex(i) == i - 1

\* Data model: a local label is a positive integer, unique within its frame.
Tables ==
    { t \in [Rows -> [frame : FrameIdx, label : 1..MaxLabel]] :
        \A i, j \in Rows :
            (i # j /\ t[i].frame = t[j].frame) => t[i].label # t[j].label }

RECURSIVE Reverse(_)
Reverse(q) == IF q = <<>> THEN <<>> ELSE Append(Reverse(Tail(q)), Head(q))

\* Variant of Groups that yields the groups in descending key order.
GroupsDescending(t) == Reverse(SortedSeq({t[i].frame : i \in Rows}))

\* reduced_dataset.groupby(TIMES_COLUMN): one group per frame, ascending
Groups(t) == SortedSeq({t[i].frame : i \in Rows})
FrameRows(t, f) == SortedSeq({i \in Rows : t[i].frame = f})

----------------------------------------------------------------------------
(* remap_segmented_image *)

\* Variant of BuildLut that stores the row index without the reserved offset.
RECURSIVE BuildLutNoOffset(_, _, _)
BuildLutNoOffset(l, t, rows) ==
    IF rows = <<>> THEN l
    ELSE BuildLutNoOffset([l EXCEPT ![t[Head(rows)].label] = InitialIndex(Head(rows))],
                          t, Tail(rows))

\* for row_index, row in frame.iterrows(): lut[object_id] = rowind + RESERVED_INDICES
RECURSIVE BuildLut(_, _, _)
BuildLut(l, t, rows) ==
    IF rows = <<>> THEN l
    ELSE BuildLut([l EXCEPT ![t[Head(rows)].label] =
                        InitialIndex(Head(rows)) + RESERVED_INDICES],
                  t, Tail(rows))

\* Variant of MaxObjectId that sizes the LUT from the table's labels only.
MaxObjectIdTableOnly(img, t, rows) ==
    SetMax({t[rows[k]].label : k \in 1..Len(rows)})

\* max(max(seg2d), max(frame's object ids))
MaxObjectId(img, t, rows) ==
    LET imgMax == SetMax(Values(img))
        tabMax == SetMax({t[rows[k]].label : k \in 1..Len(rows)})
    IN  IF imgMax >= tabMax THEN imgMax ELSE tabMax

RemapLut(img, t, rows) ==
    BuildLut([k \in 0..MaxObjectId(img, t, rows) |-> 0], t, rows)

\* Variant of RemapImage that returns the image without indexing it through the LUT.
RemapImageIdentity(img, l) == img

\* seg_remapped = lut[seg2d]
RemapImage(img, l) ==
    [img EXCEPT !.val = [r \in RowBlocks(img) |->
                            [c \in ColBlocks(img) |-> l[img.val[r][c]]]]]

----------------------------------------------------------------------------
(* ColorizerDatasetWriter.update_and_write_bbox_data *)

\* Variant of TotalIndices that leaves out the reserved slot.
TotalIndicesNoReserve ==
    SetMax({SetMax({InitialIndex(i) : i \in Range(FrameRows(table, f))}) :
                f \in Range(Groups(table))}) + 1

\* grouped_frames[INITIAL_INDEX_COLUMN].max().max() + 1 + RESERVED_INDICES
TotalIndices ==
    SetMax({SetMax({InitialIndex(i) : i \in Range(FrameRows(table, f))}) :
                f \in Range(Groups(table))}) + 1 + RESERVED_INDICES

AllocBbox(bbox) ==
    IF bbox = None THEN [k \in 0..(TotalIndices * 2 * 2 - 1) |-> 0] ELSE bbox

\* np.argwhere(seg_remapped == v), as the block pairs holding v
Cell(seg, v) == {b \in Blocks(seg) : seg.val[b[1]][b[2]] = v}

\* cell.min(0) and cell.max(0), reversed into x, y order
BboxMin(seg, cell) ==
    <<SetMin({ColLo(seg, b[2]) : b \in cell}), SetMin({RowLo(seg, b[1]) : b \in cell})>>
BboxMax(seg, cell) ==
    <<SetMax({seg.colHi[b[2]] : b \in cell}), SetMax({seg.rowHi[b[1]] : b \in cell})>>

\* Variant of BboxStep that writes at the slot of the LUT index i.
BboxStepLocalIndex(bbox, seg, l, i) ==
    LET cell == Cell(seg, l[i])
        write_index == i * 4
        mn == BboxMin(seg, cell)
        mx == BboxMax(seg, cell)
    IN  IF cell = {} THEN bbox
        ELSE [bbox EXCEPT ![write_index] = mn[1] % USHORT,
                          ![write_index + 1] = mn[2] % USHORT,
                          ![write_index + 2] = mx[1] % USHORT,
                          ![write_index + 3] = mx[2] % USHORT]

\* One pass of the loop body for LUT index i.
BboxStep(bbox, seg, l, i) ==
    LET cell == Cell(seg, l[i])
        write_index == l[i] * 4
        mn == BboxMin(seg, cell)
        mx == BboxMax(seg, cell)
    IN  IF cell = {} THEN bbox
        ELSE [bbox EXCEPT ![write_index] = mn[1] % USHORT,
                          ![write_index + 1] = mn[2] % USHORT,
                          ![write_index + 2] = mx[1] % USHORT,
                          ![write_index + 3] = mx[2] % USHORT]

\* for i in range(1, lut.size)
RECURSIVE BboxLoop(_, _, _, _)
BboxLoop(bbox, seg, l, i) ==
    IF i > SetMax(DOMAIN l) THEN bbox
    ELSE BboxLoop(BboxStep(bbox, seg, l, i), seg, l, i + 1)

UpdateBbox(bbox, seg, l) == BboxLoop(AllocBbox(bbox), seg, l, 1)

\* Variant of BboxToList that leaves out the last four entries.
BboxToListTruncated(bbox) == [k \in 1..(SetMax(DOMAIN bbox) + 1 - 4) |-> bbox[k - 1]]

\* np.ravel(self.bbox_data).tolist()
BboxToList(bbox) == [k \in 1..(SetMax(DOMAIN bbox) + 1) |-> bbox[k - 1]]

----------------------------------------------------------------------------
(* ColorizerDatasetWriter.write_image *)

\* Variant of EncodePixel whose third channel is shifted by 8 instead of 16 bits.
EncodePixelShortShift(id) ==
    << ShiftRight(BitAnd(id, 255), 0) % UINT8,
       ShiftRight(BitAnd(id, 65280), 8) % UINT8,
       ShiftRight(BitAnd(id, 16711680), 8) % UINT8,
       255 >>

EncodePixel(id) ==
    << ShiftRight(BitAnd(id, 255), 0) % UINT8,
       ShiftRight(BitAnd(id, 65280), 8) % UINT8,
       ShiftRight(BitAnd(id, 16711680), 16) % UINT8,
       255 >>

EncodeImage(seg) ==
    [seg EXCEPT !.val = [r \in RowBlocks(seg) |->
                            [c \in ColBlocks(seg) |-> EncodePixel(seg.val[r][c])]]]

FrameFileName(n) == "frame_" \o ToString(n) \o ".png"
FeatureFileName(i) == "feature_" \o ToString(i) \o ".json"

----------------------------------------------------------------------------
(* ColorizerDatasetWriter.write_manifest *)

\* for i in range(len(feature_names)): featmap[feature_names[i]] = "feature_<i>.json"
RECURSIVE BuildFeatMap(_, _, _)
BuildFeatMap(m, names, i) ==
    IF i > Len(names) THEN m
    ELSE BuildFeatMap((names[i] :> FeatureFileName(i - 1)) @@ m, names, i + 1)

\* combined_feature_metadata[feature_names[i]] = feature_metadata[i]
RECURSIVE BuildMetadata(_, _, _, _)
BuildMetadata(m, names, meta, i) ==
    IF i > Len(meta) THEN m
    ELSE BuildMetadata((names[i] :> meta[i]) @@ m, names, meta, i + 1)

ManifestBase(num_frames, feature_names) ==
    [ frames |-> [i \in 1..num_frames |-> FrameFileName(i - 1)],
      features |-> BuildFeatMap(<<>>, feature_names, 1),
      outliers |-> "outliers.json",
      tracks |-> "tracks.json",
      times |-> "times.json",
      centroids |-> "centroids.json",
      bounds |-> "bounds.json" ]

Manifest(a) ==
    LET base == ManifestBase(a.num_frames, a.feature_names)
    IN  IF a.feature_metadata # <<>>
           /\ Len(a.feature_metadata) = Len(a.feature_names)
        THEN base @@ ("featureMetadata" :>
                        BuildMetadata(<<>>, a.feature_names, a.feature_metadata, 1))
        ELSE base

----------------------------------------------------------------------------
(* ColorizerDatasetWriter.write_feature_data                               *)
(*                                                                         *)
(* A value of a feature column is a number or NaN.  Centroids are numbers  *)
(* and writer.scale is the fraction num/den (0.5 is 1/2), so the product   *)
(* centroid * scale is the exact fraction centroid * num / den.            *)

Num(v) == [nan |-> FALSE, v |-> v]
NaN == [nan |-> TRUE, v |-> 0]

NonNan(f) == {f[k].v : k \in {j \in DOMAIN f : ~f[j].nan}}

\* Variant of NanMin in which a NaN entry makes the result NaN (np.min).
NanMinPropagating(f) ==
    IF \E k \in DOMAIN f : f[k].nan THEN NaN ELSE Num(SetMin(NonNan(f)))

\* np.nanmin(f), np.nanmax(f): NaN entries are skipped, an all-NaN array gives NaN
NanMin(f) == IF NonNan(f) = {} THEN NaN ELSE Num(SetMin(NonNan(f)))
NanMax(f) == IF NonNan(f) = {} THEN NaN ELSE Num(SetMax(NonNan(f)))

\* array.tolist()
ToList(a) == [k \in 1..Len(a) |-> a[k]]

\* np.ravel(np.dstack([centroids_x, centroids_y])): x0, y0, x1, y1, ...
CentroidsStacked(cx, cy) ==
    [k \in 1..(2 * Len(cx)) |-> IF k % 2 = 1 THEN cx[(k + 1) \div 2] ELSE cy[k \div 2]]

\* Variant of TruncToInt that rounds down (np.floor) instead of toward zero.
TruncToIntFloor(p, q) == p \div q

\* astype(int) of the fraction p/q, q > 0: the fractional part is dropped
TruncToInt(p, q) == IF p >= 0 THEN p \div q ELSE -((-p) \div q)

\* (centroids_stacked * self.scale).astype(int)
ScaleCentroids(stacked, scale) ==
    [k \in 1..Len(stacked) |-> TruncToInt(stacked[k] * scale.num, scale.den)]

OutliersJson(a) == [data |-> ToList(a.outliers), min |-> FALSE, max |-> TRUE]
TracksJson(a) == [data |-> ToList(a.tracks)]
TimesJson(a) == [data |-> ToList(a.times)]
CentroidsJson(a) ==
    [data |-> ToList(ScaleCentroids(CentroidsStacked(a.centroids_x, a.centroids_y),
                                    a.scale))]
FeatureJson(f) == [data |-> ToList(f), min |-> NanMin(f), max |-> NanMax(f)]

----------------------------------------------------------------------------
(* make_dataset of the two converters: the feature lists they pass on. *)

FeatureColumns(v) ==
    IF v = "nucmorph"
    THEN <<"NUC_shape_volume_lcc", "NUC_position_depth_lcc">>
    ELSE <<"mean migration speed per track (um/min)",
           "Integrated Distance (um)",
           "Displacement (um)",
           "Average colony overlap per track",
           "migration velocity (um/min)",
           "R0Cell_Neighbors_NumberOfNeighbors_Adjacent",
           "R0Cell_Neighbors_PercentTouching_Adjacent">>

\* nucmorph: label.capitalize() of get_plot_labels_for_metric (a library outside the
\* repository; one opaque label per column).  emt: extract_units_from_feature_name
\* strips the trailing "(units)" and the first letter is put in upper case.
FeatureLabels(v) ==
    IF v = "nucmorph"
    THEN <<"Label of NUC_shape_volume_lcc", "Label of NUC_position_depth_lcc">>
    ELSE <<"Mean migration speed per track",
           "Integrated Distance",
           "Displacement",
           "Average colony overlap per track",
           "Migration velocity",
           "R0Cell_Neighbors_NumberOfNeighbors_Adjacent",
           "R0Cell_Neighbors_PercentTouching_Adjacent">>

\* "[mu]" stands for the replacement text of unit.replace("um", ...).
FeatureMetadata(v) ==
    IF v = "nucmorph"
    THEN <<[units |-> "Unit of NUC_shape_volume_lcc"],
           [units |-> "Unit of NUC_position_depth_lcc"]>>
    ELSE <<[units |-> "[mu]m/min"], [units |-> "[mu]m"], [units |-> "[mu]m"],
           [units |-> "None"], [units |-> "[mu]m/min"], [units |-> "None"],
           [units |-> "None"]>>

\* Files write_feature_data leaves for k feature arrays.
FeatureDataFiles(k) ==
    {"outliers.json", "tracks.json", "times.json", "centroids.json"}
        \cup {FeatureFileName(i) : i \in 0..(k - 1)}

----------------------------------------------------------------------------
(* The conversion run: make_dataset, make_features, make_frames. *)

featVars == <<fargs, fi, series_json>>
otherVars == <<coll, td, perm>>

Init ==
    /\ variant \in {"nucmorph", "emt"}
    /\ do_frames \in BOOLEAN
    /\ table \in Tables
    /\ pc = "start"
    /\ todo = Groups(table)
    /\ sub = "load"
    /\ seg2d = NoImage
    /\ lut = None
    /\ seg_remapped = NoImage
    /\ bbox_data = None
    /\ files = {}
    /\ bounds_json = <<>>
    /\ frame_png = <<>>
    /\ manifest_json = NoManifest
    /\ margs = NoArgs
    /\ luts = <<>>
    /\ raised = ""
    /\ perm = NoPerm
    /\ fargs = NoFeatureArgs
    /\ fi = 0
    /\ series_json = <<>>
    /\ coll = NoColl
    /\ td = NoTd

\* The arrays make_features collects from the dataset.  times is the
\* TIMES_COLUMN of the table.  The other columns are not part of the reduced
\* table: the run carries one sample of them (SpecFeatures ranges over their
\* values); the emt converters build outliers as a list of False.
CollectArrays(t, v) ==
    [features |-> [k \in 1..Len(FeatureColumns(v)) |-> [i \in Rows |-> Num(i + k)]],
     tracks |-> [i \in Rows |-> InitialIndex(i)],
     times |-> [i \in Rows |-> t[i].frame],
     centroids_x |-> [i \in Rows |-> 100],
     centroids_y |-> [i \in Rows |-> 50],
     outliers |-> [i \in Rows |-> FALSE],
     scale |-> [num |-> 1, den |-> 1]]

\* make_features(...) up to its call of writer.write_feature_data(...)
MakeFeatures ==
    /\ pc = "start"
    /\ fargs' = CollectArrays(table, variant)
    /\ pc' = "outliers"
    /\ UNCHANGED <<variant, do_frames, table, todo, sub, seg2d, lut, seg_remapped,
                   bbox_data, files, bounds_json, frame_png, manifest_json, margs,
                   luts, raised, fi, series_json, coll, td, perm>>

\* One file of write_feature_data: open(name, "w") and json.dump(content).
WriteSeriesFile(name, content, next) ==
    /\ series_json' = (name :> content) @@ series_json
    /\ files' = files \cup {name}
    /\ pc' = next
    /\ UNCHANGED <<variant, do_frames, table, todo, sub, seg2d, lut, seg_remapped,
                   bbox_data, bounds_json, frame_png, manifest_json, margs, luts,
                   raised, fargs, coll, td, perm>>

WriteOutliers ==
    /\ pc = "outliers"
    /\ WriteSeriesFile("outliers.json", OutliersJson(fargs), "tracks")
    /\ UNCHANGED fi

WriteTracks ==
    /\ pc = "tracks"
    /\ WriteSeriesFile("tracks.json", TracksJson(fargs), "times")
    /\ UNCHANGED fi

WriteTimes ==
    /\ pc = "times"
    /\ WriteSeriesFile("times.json", TimesJson(fargs), "centroids")
    /\ UNCHANGED fi

WriteCentroids ==
    /\ pc = "centroids"
    /\ WriteSeriesFile("centroids.json", CentroidsJson(fargs), "feature")
    /\ fi' = 0

\* for i in range(len(features)): one pass of the loop
WriteFeature ==
    /\ pc = "feature"
    /\ fi < Len(fargs.features)
    /\ WriteSeriesFile(FeatureFileName(fi), FeatureJson(fargs.features[fi + 1]), "feature")
    /\ fi' = fi + 1

\* write_feature_data and make_features return; make_dataset goes on with
\* make_frames if do_frames, else with write_manifest.
MakeFeaturesReturns ==
    /\ pc = "feature"
    /\ fi = Len(fargs.features)
    /\ pc' = IF do_frames THEN "frames" ELSE "manifest"
    /\ UNCHANGED <<variant, do_frames, table, todo, sub, seg2d, lut, seg_remapped,
                   bbox_data, files, bounds_json, frame_png, manifest_json, margs,
                   luts, raised, fargs, fi, series_json, coll, td, perm>>

\* Indexing the LUT: lut[object_id] = ... for every row, lut[seg2d] for every pixel.
LutIndexInRange(img, t, rows, l) ==
    /\ Values(img) \subseteq DOMAIN l
    /\ {t[rows[k]].label : k \in 1..Len(rows)} \subseteq DOMAIN l

\* Loop body up to remap_segmented_image: decode and scale the frame's image
\* (any label image), then remap it.  An index outside the LUT raises
\* IndexError, which nothing catches.
LoadAndRemap ==
    /\ pc = "frames" /\ sub = "load" /\ todo # <<>>
    /\ \E img \in LabelImages :
        LET rows == FrameRows(table, Head(todo))
            l == RemapLut(img, table, rows)
        IN  IF LutIndexInRange(img, table, rows, l)
            THEN /\ seg2d' = img
                 /\ lut' = l
                 /\ seg_remapped' = RemapImage(img, l)
                 /\ luts' = (Head(todo) :> l) @@ luts
                 /\ sub' = "remapped"
                 /\ UNCHANGED <<pc, raised>>
            ELSE /\ raised' = "remap"
                 /\ pc' = "failed"
                 /\ UNCHANGED <<seg2d, lut, seg_remapped, luts, sub>>
    /\ UNCHANGED <<variant, do_frames, table, todo, bbox_data, files,
                   bounds_json, frame_png, manifest_json, margs>>
    /\ UNCHANGED <<featVars, otherVars>>

\* End of one pass of the make_frames loop; after the last group make_frames
\* returns and make_dataset goes on to write_manifest.
EndFrame ==
    /\ todo' = Tail(todo)
    /\ sub' = "load"
    /\ pc' = IF Tail(todo) = <<>> THEN "manifest" ELSE "frames"
    /\ seg2d' = NoImage
    /\ lut' = None
    /\ seg_remapped' = NoImage

StayInFrame(next) ==
    /\ sub' = next
    /\ UNCHANGED <<pc, todo, seg2d, lut, seg_remapped>>

AtBboxCall ==
    \/ variant = "nucmorph" /\ sub = "remapped"
    \/ variant = "emt" /\ sub = "image_done"

AtImageCall ==
    \/ variant = "emt" /\ sub = "remapped"
    \/ variant = "nucmorph" /\ sub = "bbox_done"

\* writer.update_and_write_bbox_data(grouped_frames, seg_remapped, lut)
UpdateAndWriteBboxData ==
    /\ pc = "frames"
    /\ AtBboxCall
    /\ bbox_data' = UpdateBbox(bbox_data, seg_remapped, lut)
    /\ bounds_json' = BboxToList(bbox_data')
    /\ files' = files \cup {"bounds.json"}
    /\ IF variant = "nucmorph" THEN StayInFrame("bbox_done") ELSE EndFrame
    /\ UNCHANGED <<variant, do_frames, table, frame_png, manifest_json, margs, luts,
                   raised>>
    /\ UNCHANGED <<featVars, otherVars>>

\* writer.write_image(seg_remapped, frame_number)
WriteImage ==
    /\ pc = "frames"
    /\ AtImageCall
    /\ frame_png' = (Head(todo) :> EncodeImage(seg_remapped)) @@ frame_png
    /\ files' = files \cup {FrameFileName(Head(todo))}
    /\ IF variant = "emt" THEN StayInFrame("image_done") ELSE EndFrame
    /\ UNCHANGED <<variant, do_frames, table, bbox_data, bounds_json,
                   manifest_json, margs, luts, raised>>
    /\ UNCHANGED <<featVars, otherVars>>

\* The step of the loop body an exception comes from.
FailingStep ==
    IF sub = "load" THEN "decode" ELSE IF AtBboxCall THEN "bbox" ELSE "image"

\* Variant of FrameFails in which the loop body catches the exception and
\* make_frames goes on with the next frame.
FrameFailsAndContinues ==
    /\ pc = "frames" /\ todo # <<>>
    /\ raised' = FailingStep
    /\ EndFrame
    /\ UNCHANGED <<variant, do_frames, table, bbox_data, files, bounds_json,
                   frame_png, manifest_json, margs, luts>>
    /\ UNCHANGED <<featVars, otherVars>>

\* A step of the loop body raises (the image cannot be read, a file cannot be
\* written).  make_frames and make_dataset have no handler: the exception
\* leaves them, the run ends and the writer and the frame's arrays are gone.
FrameFails ==
    /\ pc = "frames" /\ todo # <<>>
    /\ raised' = FailingStep
    /\ pc' = "failed"
    /\ seg2d' = NoImage
    /\ lut' = None
    /\ seg_remapped' = NoImage
    /\ bbox_data' = None
    /\ UNCHANGED <<variant, do_frames, table, todo, sub, files, bounds_json,
                   frame_png, manifest_json, margs, luts>>
    /\ UNCHANGED <<featVars, otherVars>>

\* writer.write_manifest(nframes, feature_labels, feature_metadata)
WriteManifest ==
    /\ pc = "manifest"
    /\ margs' = [num_frames |-> Len(Groups(table)),
                 feature_names |-> FeatureLabels(variant),
                 feature_metadata |-> FeatureMetadata(variant)]
    /\ manifest_json' = Manifest(margs')
    /\ files' = files \cup {"manifest.json"}
    /\ pc' = "done"
    /\ UNCHANGED <<variant, do_frames, table, todo, sub, seg2d, lut, seg_remapped,
                   bbox_data, bounds_json, frame_png, luts, raised>>
    /\ UNCHANGED <<featVars, otherVars>>

Next ==
    \/ MakeFeatures
    \/ WriteOutliers
    \/ WriteTracks
    \/ WriteTimes
    \/ WriteCentroids
    \/ WriteFeature
    \/ MakeFeaturesReturns
    \/ LoadAndRemap
    \/ UpdateAndWriteBboxData
    \/ WriteImage
    \/ FrameFails
    \/ WriteManifest

Spec == Init /\ [][Next]_vars

----------------------------------------------------------------------------
(* write_image as a function of the ids it is given: one call on an image  *)
(* whose pixels are ids around the byte boundaries of the encoding.        *)

MaxEncodableId == 2 ^ 24 - 1

SampleIds ==
    {b + d : b \in {0, 2 ^ 8 - 6, 2 ^ 16 - 6, 2 ^ 24 - 6}, d \in 0..EncSpan}

InitEncode ==
    /\ variant = "emt"
    /\ do_frames = TRUE
    /\ table = CHOOSE t \in Tables : TRUE
    /\ pc = "image_call"
    /\ todo = <<0>>
    /\ sub = "remapped"
    /\ seg2d = NoImage
    /\ lut = None
    /\ seg_remapped \in ImagesOver(SampleIds)
    /\ bbox_data = None
    /\ files = {}
    /\ bounds_json = <<>>
    /\ frame_png = <<>>
    /\ manifest_json = NoManifest
    /\ margs = NoArgs
    /\ luts = <<>>
    /\ raised = ""
    /\ perm = NoPerm
    /\ fargs = NoFeatureArgs
    /\ fi = 0
    /\ series_json = <<>>
    /\ coll = NoColl
    /\ td = NoTd

\* writer.write_image(seg_remapped, frame_num)
ImageCall ==
    /\ pc = "image_call"
    /\ frame_png' = (Head(todo) :> EncodeImage(seg_remapped)) @@ frame_png
    /\ files' = files \cup {FrameFileName(Head(todo))}
    /\ pc' = "image_returned"
    /\ UNCHANGED <<variant, do_frames, table, todo, sub, seg2d, lut, seg_remapped,
                   bbox_data, bounds_json, manifest_json, margs, luts, raised>>
    /\ UNCHANGED <<featVars, otherVars>>

NextEncode == ImageCall

SpecEncode == InitEncode /\ [][NextEncode]_vars

----------------------------------------------------------------------------
(* write_manifest as a function of its arguments: one call with any frame  *)
(* count, any list of feature names and any list of metadata entries.      *)

FeatureNames == {"a", "b"}
Units == {[units |-> "u1"], [units |-> "u2"]}

InitManifest ==
    /\ variant = "emt"
    /\ do_frames = TRUE
    /\ table = CHOOSE t \in Tables : TRUE
    /\ pc = "manifest_call"
    /\ todo = <<>>
    /\ sub = "load"
    /\ seg2d = NoImage
    /\ lut = None
    /\ seg_remapped = NoImage
    /\ bbox_data = None
    /\ files = {}
    /\ bounds_json = <<>>
    /\ frame_png = <<>>
    /\ manifest_json = NoManifest
    /\ margs \in [num_frames : 0..MaxManFrames,
                  feature_names : SeqsUpTo(FeatureNames, MaxFeatures),
                  feature_metadata : SeqsUpTo(Units, MaxFeatures)]
    /\ luts = <<>>
    /\ raised = ""
    /\ perm = NoPerm
    /\ fargs = NoFeatureArgs
    /\ fi = 0
    /\ series_json = <<>>
    /\ coll = NoColl
    /\ td = NoTd

\* writer.write_manifest(num_frames, feature_names, feature_metadata)
ManifestCall ==
    /\ pc = "manifest_call"
    /\ manifest_json' = Manifest(margs)
    /\ files' = files \cup {"manifest.json"}
    /\ pc' = "manifest_returned"
    /\ UNCHANGED <<variant, do_frames, table, todo, sub, seg2d, lut, seg_remapped,
                   bbox_data, bounds_json, frame_png, margs, luts, raised>>
    /\ UNCHANGED <<featVars, otherVars>>

NextManifest == ManifestCall

SpecManifest == InitManifest /\ [][NextManifest]_vars

----------------------------------------------------------------------------
(* write_feature_data as a function of its arguments: one call whose       *)
(* feature arrays hold numbers and NaN, or whose centroids and scale vary. *)

FeatureValues == {NaN, Num(-1), Num(2)}
FeatureArrays == [Rows -> FeatureValues]
CentroidValues == {-5, 50, 100}
Scales == {[num |-> 1, den |-> 1], [num |-> 1, den |-> 2], [num |-> 1, den |-> 4]}

SampleArgs == CollectArrays(CHOOSE t \in Tables : TRUE, "nucmorph")

FeatureArgs ==
    {[SampleArgs EXCEPT !.features = fs] : fs \in SeqsUpTo(FeatureArrays, MaxFeatures)}
        \cup {[SampleArgs EXCEPT !.centroids_x = cx, !.centroids_y = cy, !.scale = sc] :
                 cx \in [Rows -> CentroidValues], cy \in [Rows -> CentroidValues],
                 sc \in Scales}

InitFeatures ==
    /\ variant = "nucmorph"
    /\ do_frames = FALSE
    /\ table = CHOOSE t \in Tables : TRUE
    /\ pc = "outliers"
    /\ todo = <<>>
    /\ sub = "load"
    /\ seg2d = NoImage
    /\ lut = None
    /\ seg_remapped = NoImage
    /\ bbox_data = None
    /\ files = {}
    /\ bounds_json = <<>>
    /\ frame_png = <<>>
    /\ manifest_json = NoManifest
    /\ margs = NoArgs
    /\ luts = <<>>
    /\ raised = ""
    /\ perm = NoPerm
    /\ fargs \in FeatureArgs
    /\ fi = 0
    /\ series_json = <<>>
    /\ coll = NoColl
    /\ td = NoTd

NextFeatures ==
    \/ WriteOutliers
    \/ WriteTracks
    \/ WriteTimes
    \/ WriteCentroids
    \/ WriteFeature

SpecFeatures == InitFeatures /\ [][NextFeatures]_vars

----------------------------------------------------------------------------
(* update_collection: calls on a collection file that is missing, is not   *)
(* JSON, or holds a list of {name, path} entries.                          *)

CollNames == {"d1", "d2"}
CollPaths == {"p1", "p2"}
Entries == [name : CollNames, path : CollPaths]

\* "garbage" is a file that is not JSON (an empty file included); "notlist"
\* is JSON that is not a list of entries (an object, a number, a string).
CollectionFiles ==
    {AbsentFile, [kind |-> "garbage", items |-> <<>>],
     [kind |-> "unreadable", items |-> <<>>],
     [kind |-> "notlist", items |-> <<>>]}
        \cup {[kind |-> "list", items |-> c] : c \in SeqsUpTo(Entries, MaxColl)}

\* collection = []; if os.path.exists(...): try: json.load except: collection = []
ReadCollection(file) == IF file.kind = "list" THEN file.items ELSE <<>>

\* Variant of LoadRaises without the except clause: a file that cannot be
\* read or is not JSON makes the load raise out of update_collection.
LoadRaisesOnGarbage(file) == file.kind \in {"garbage", "unreadable"}

\* try: json.load(f) / except: collection = [] -- no exception of the read
\* leaves update_collection
LoadRaises(file) == FALSE

\* Variant of Upsert that writes only the new entry when the name is not found.
UpsertKeepsOnlyNew(collection, i, name, path) ==
    IF \E j \in 1..Len(collection) : collection[j].name = name
    THEN LET first == SetMin({j \in 1..Len(collection) : collection[j].name = name})
         IN  [collection EXCEPT ![first].path = path]
    ELSE <<[name |-> name, path |-> path]>>

\* Variant of Upsert that goes on to append after updating the found entry.
UpsertAppendAfterUpdate(collection, i, name, path) ==
    IF \E j \in 1..Len(collection) : collection[j].name = name
    THEN LET first == SetMin({j \in 1..Len(collection) : collection[j].name = name})
         IN  Append([collection EXCEPT ![first].path = path],
                    [name |-> name, path |-> path])
    ELSE Append(collection, [name |-> name, path |-> path])

\* Variant of Upsert that appends without looking for the name.
UpsertAlwaysAppend(collection, i, name, path) ==
    Append(collection, [name |-> name, path |-> path])

\* for i in range(len(collection)): the first entry with the name gets the
\* path and the function returns; with no such entry one is appended.
RECURSIVE Upsert(_, _, _, _)
Upsert(collection, i, name, path) ==
    IF i > Len(collection) THEN Append(collection, [name |-> name, path |-> path])
    ELSE IF collection[i].name = name THEN [collection EXCEPT ![i].path = path]
    ELSE Upsert(collection, i + 1, name, path)

InitCollection ==
    /\ variant = "emt"
    /\ do_frames = TRUE
    /\ table = CHOOSE t \in Tables : TRUE
    /\ pc = "collection"
    /\ todo = <<>>
    /\ sub = "load"
    /\ seg2d = NoImage
    /\ lut = None
    /\ seg_remapped = NoImage
    /\ bbox_data = None
    /\ files = {}
    /\ bounds_json = <<>>
    /\ frame_png = <<>>
    /\ manifest_json = NoManifest
    /\ margs = NoArgs
    /\ luts = <<>>
    /\ raised = ""
    /\ perm = NoPerm
    /\ fargs = NoFeatureArgs
    /\ fi = 0
    /\ series_json = <<>>
    /\ coll \in {[NoColl EXCEPT !.file = f] : f \in CollectionFiles}
    /\ td = NoTd

\* update_collection(collection_filepath, dataset_name, dataset_path).
\* The file is opened for writing (and so emptied) before the collection is
\* looked at: JSON that is not a list of entries makes len(), the subscript
\* or append raise with the file left empty.
UpdateCollection ==
    /\ pc = "collection"
    /\ raised = ""
    /\ coll.calls < MaxCalls
    /\ \E name \in CollNames, path \in CollPaths :
           LET called == [coll EXCEPT !.prev = coll.file, !.name = name,
                                      !.path = path, !.calls = coll.calls + 1]
           IN  IF LoadRaises(coll.file)
               THEN /\ coll' = called
                    /\ raised' = "collection"
               ELSE IF coll.file.kind = "notlist"
               THEN /\ coll' = [called EXCEPT !.file = [kind |-> "garbage", items |-> <<>>]]
                    /\ raised' = "collection"
               ELSE /\ coll' = [called EXCEPT !.file =
                                   [kind |-> "list",
                                    items |-> Upsert(ReadCollection(coll.file), 1, name, path)]]
                    /\ UNCHANGED raised
    /\ UNCHANGED <<variant, do_frames, table, pc, todo, sub, seg2d, lut, seg_remapped,
                   bbox_data, files, bounds_json, frame_png, manifest_json, margs,
                   luts, fargs, fi, series_json, td, perm>>

NextCollection == UpdateCollection

SpecCollection == InitCollection /\ [][NextCollection]_vars

----------------------------------------------------------------------------
(* make_dataset of timelapse-colorizer-data/generate_test_data.py: the     *)
(* synthetic dataset.  A frame's image is held as the rectangles painted   *)
(* into it: objects[p] is the rectangle of pixels that carry the value p.  *)

xres == 360
yres == 240
cells_per_frame == 4
cell_size == xres \div cells_per_frame
cell_half_size == cell_size \div 2

\* Frame counts for which t = i / (nframes - 1) is exact in binary floating
\* point (5 is the default).
TestFrameCounts == {2, 3, 5}

\* int(cell_half_size + t * (yres - cell_size)) with t = (1.0 * i) / (nframes - 1)
YCentroid(i, nframes) ==
    (cell_half_size * (nframes - 1) + i * (yres - cell_size)) \div (nframes - 1)

InitTestData ==
    /\ variant = "emt"
    /\ do_frames = TRUE
    /\ table = CHOOSE t \in Tables : TRUE
    /\ pc = "test_data"
    /\ todo = <<>>
    /\ sub = "load"
    /\ seg2d = NoImage
    /\ lut = None
    /\ seg_remapped = NoImage
    /\ bbox_data = None
    /\ files = {}
    /\ bounds_json = <<>>
    /\ frame_png = <<>>
    /\ manifest_json = NoManifest
    /\ margs = NoArgs
    /\ luts = <<>>
    /\ raised = ""
    /\ perm = NoPerm
    /\ fargs = NoFeatureArgs
    /\ fi = 0
    /\ series_json = <<>>
    /\ coll = NoColl
    /\ \E nframes \in TestFrameCounts, nfeatures \in 0..MaxFeatures :
           td = [pc |-> "cell", nframes |-> nframes, nfeatures |-> nfeatures,
                 i |-> 0, track |-> 0, k |-> 0, objects |-> <<>>,
                 bbox_data |-> [j \in 0..(cells_per_frame * nframes * 2 * 2 - 1) |-> 0],
                 files |-> {}, bounds_json |-> <<>>]

TdUnchanged ==
    UNCHANGED <<variant, do_frames, table, pc, todo, sub, seg2d, lut, seg_remapped,
                bbox_data, files, bounds_json, frame_png, manifest_json, margs,
                luts, raised, fargs, fi, series_json, coll, perm>>

\* for track in range(cells_per_frame): one pass of the inner loop
TdDrawCell ==
    /\ td.pc = "cell"
    /\ LET id == td.track * td.nframes + td.i
           x_centroid == cell_half_size + td.track * cell_size
           y_centroid == YCentroid(td.i, td.nframes)
           x_min == x_centroid - cell_half_size + 2
           y_min == y_centroid - cell_half_size + 2
           x_max == x_centroid + cell_half_size - 2
           y_max == y_centroid + cell_half_size - 2
       IN  td' = [td EXCEPT
                    \* seg2d[y_min:y_max, x_min:x_max] = id + 1
                    !.objects = ((id + 1) :> [x_lo |-> x_min, y_lo |-> y_min,
                                              x_hi |-> x_max - 1, y_hi |-> y_max - 1])
                                    @@ td.objects,
                    !.bbox_data = [td.bbox_data EXCEPT ![4 * id] = x_min % USHORT,
                                                       ![4 * id + 1] = y_min % USHORT,
                                                       ![4 * id + 2] = x_max % USHORT,
                                                       ![4 * id + 3] = y_max % USHORT],
                    !.track = td.track + 1,
                    !.pc = IF td.track + 1 = cells_per_frame THEN "save" ELSE "cell"]
    /\ TdUnchanged

\* img.save(frame_<i>.png); next pass of the frame loop
TdSaveFrame ==
    /\ td.pc = "save"
    /\ td' = [td EXCEPT !.files = td.files \cup {FrameFileName(td.i)},
                        !.i = td.i + 1,
                        !.track = 0,
                        !.pc = IF td.i + 1 < td.nframes THEN "cell" ELSE "tables"]
    /\ TdUnchanged

\* bounds.json, times.json, tracks.json, centroids.json, outliers.json
TdWriteTables ==
    /\ td.pc = "tables"
    /\ td' = [td EXCEPT
                !.bounds_json = BboxToList(td.bbox_data),
                !.files = td.files \cup {"bounds.json", "times.json", "tracks.json",
                                         "centroids.json", "outliers.json"},
                !.pc = "features"]
    /\ TdUnchanged

\* for i in range(nfeatures): feature_<i>.json of random samples
TdWriteFeature ==
    /\ td.pc = "features"
    /\ td.k < td.nfeatures
    /\ td' = [td EXCEPT !.files = td.files \cup {FeatureFileName(td.k)},
                        !.k = td.k + 1]
    /\ TdUnchanged

TdWriteManifest ==
    /\ td.pc = "features"
    /\ td.k = td.nfeatures
    /\ td' = [td EXCEPT !.files = td.files \cup {"manifest.json"}, !.pc = "done"]
    /\ TdUnchanged

NextTestData ==
    \/ TdDrawCell
    \/ TdSaveFrame
    \/ TdWriteTables
    \/ TdWriteFeature
    \/ TdWriteManifest

SpecTestData == InitTestData /\ [][NextTestData]_vars

----------------------------------------------------------------------------
(* update_and_write_bbox_data under two processing orders: two writers are  *)
(* given the same remapped frames, one in frame order, one in the reverse   *)
(* order, one call each per step.                                           *)

\* The remapped image and LUT of every frame group of t, for one choice of
\* frame images.
RemappedFrames(t) ==
    LET G == Groups(t)
    IN  { [k \in 1..Len(G) |->
              LET l == RemapLut(imgs[k], t, FrameRows(t, G[k]))
              IN  [seg |-> RemapImage(imgs[k], l), lut |-> l]] :
          imgs \in [1..Len(G) -> LabelImages] }

InitOrder ==
    /\ variant = "emt"
    /\ do_frames = TRUE
    /\ table \in Tables
    /\ pc = "order"
    /\ todo = <<>>
    /\ sub = "load"
    /\ seg2d = NoImage
    /\ lut = None
    /\ seg_remapped = NoImage
    /\ bbox_data = None
    /\ files = {}
    /\ bounds_json = <<>>
    /\ frame_png = <<>>
    /\ manifest_json = NoManifest
    /\ margs = NoArgs
    /\ luts = <<>>
    /\ raised = ""
    /\ perm \in {[NoPerm EXCEPT !.frames = fr] : fr \in RemappedFrames(table)}
    /\ fargs = NoFeatureArgs
    /\ fi = 0
    /\ series_json = <<>>
    /\ coll = NoColl
    /\ td = NoTd

\* writer.update_and_write_bbox_data(grouped_frames, seg_remapped, lut) on
\* the next frame of each order
OrderCall ==
    /\ pc = "order"
    /\ perm.k < Len(perm.frames)
    /\ LET a == perm.frames[perm.k + 1]
           b == Reverse(perm.frames)[perm.k + 1]
       IN  perm' = [perm EXCEPT !.fwd = UpdateBbox(perm.fwd, a.seg, a.lut),
                                !.bwd = UpdateBbox(perm.bwd, b.seg, b.lut),
                                !.k = perm.k + 1]
    /\ UNCHANGED <<variant, do_frames, table, pc, todo, sub, seg2d, lut, seg_remapped,
                   bbox_data, files, bounds_json, frame_png, manifest_json, margs,
                   luts, raised, fargs, fi, series_json, coll, td>>

NextOrder == OrderCall

SpecOrder == InitOrder /\ [][NextOrder]_vars

----------------------------------------------------------------------------
(* make_frames of generate_data_2.py: the LUT, the bounding boxes and the   *)
(* frame image are computed inline, one loop pass per frame.                *)

InitData2 ==
    /\ variant = "generate_data_2"
    /\ do_frames = TRUE
    /\ table \in Tables
    /\ pc = "data2_frames"
    /\ todo = Groups(table)
    /\ sub = "load"
    /\ seg2d = NoImage
    /\ lut = None
    /\ seg_remapped = NoImage
    /\ bbox_data = AllocBbox(None)
    /\ files = {}
    /\ bounds_json = <<>>
    /\ frame_png = <<>>
    /\ manifest_json = NoManifest
    /\ margs = NoArgs
    /\ luts = <<>>
    /\ raised = ""
    /\ perm = NoPerm
    /\ fargs = NoFeatureArgs
    /\ fi = 0
    /\ series_json = <<>>
    /\ coll = NoColl
    /\ td = NoTd

\* One pass of "for group_name, frame in grouped_frames".  np.nanmin of the
\* nonzero pixels raises on an image without any; the LUT has mx + 1 entries,
\* mx the image's maximum, and lut[label] raises IndexError for a larger label.
Data2Frame ==
    /\ pc = "data2_frames" /\ todo # <<>>
    /\ \E img \in LabelImages :
        LET rows == FrameRows(table, Head(todo))
            mx == SetMax(Values(img))
            zeros == [k \in 0..mx |-> 0]
            l == BuildLut(zeros, table, rows)
            seg == RemapImage(img, l)
        IN  IF Values(img) = {0}
            THEN /\ raised' = "decode"
                 /\ pc' = "failed"
                 /\ UNCHANGED <<todo, bbox_data, files, bounds_json, frame_png, luts>>
            ELSE IF ~LutIndexInRange(img, table, rows, zeros)
            THEN /\ raised' = "remap"
                 /\ pc' = "failed"
                 /\ UNCHANGED <<todo, bbox_data, files, bounds_json, frame_png, luts>>
            ELSE /\ luts' = (Head(todo) :> l) @@ luts
                 /\ bbox_data' = BboxLoop(bbox_data, seg, l, 1)
                 /\ frame_png' = (Head(todo) :> EncodeImage(seg)) @@ frame_png
                 /\ bounds_json' = BboxToList(bbox_data')
                 /\ files' = files \cup {FrameFileName(Head(todo)), "bounds.json"}
                 /\ todo' = Tail(todo)
                 /\ pc' = IF Tail(todo) = <<>> THEN "data2_done" ELSE "data2_frames"
                 /\ UNCHANGED raised
    /\ UNCHANGED <<variant, do_frames, table, sub, seg2d, lut, seg_remapped,
                   manifest_json, margs>>
    /\ UNCHANGED <<featVars, otherVars>>

NextData2 == Data2Frame

SpecData2 == InitData2 /\ [][NextData2]_vars

----------------------------------------------------------------------------
(* write_feature_data followed by write_manifest, as make_dataset calls     *)
(* them without frames: k feature arrays, then any k feature names.         *)

DatasetCalls ==
    UNION { { [f |-> [SampleArgs EXCEPT !.features =
                         [j \in 1..k |-> [i \in Rows |-> Num(i + j)]]],
               m |-> [num_frames |-> nf, feature_names |-> names,
                      feature_metadata |-> meta]] :
              nf \in 0..MaxManFrames, names \in [1..k -> FeatureNames],
              meta \in SeqsUpTo(Units, MaxFeatures) } :
            k \in 0..MaxFeatures }

InitDataset ==
    \E c \in DatasetCalls :
        /\ variant = "emt"
        /\ do_frames = FALSE
        /\ table = CHOOSE t \in Tables : TRUE
        /\ pc = "outliers"
        /\ todo = <<>>
        /\ sub = "load"
        /\ seg2d = NoImage
        /\ lut = None
        /\ seg_remapped = NoImage
        /\ bbox_data = None
        /\ files = {}
        /\ bounds_json = <<>>
        /\ frame_png = <<>>
        /\ manifest_json = NoManifest
        /\ margs = c.m
        /\ luts = <<>>
        /\ raised = ""
        /\ perm = NoPerm
        /\ fargs = c.f
        /\ fi = 0
        /\ series_json = <<>>
        /\ coll = NoColl
        /\ td = NoTd

\* write_feature_data returns to its caller, which calls write_manifest next
FeatureDataReturns ==
    /\ pc = "feature"
    /\ fi = Len(fargs.features)
    /\ pc' = "manifest_call"
    /\ UNCHANGED <<variant, do_frames, table, todo, sub, seg2d, lut, seg_remapped,
                   bbox_data, files, bounds_json, frame_png, manifest_json, margs,
                   luts, raised>>
    /\ UNCHANGED <<featVars, otherVars>>

NextDataset ==
    \/ WriteOutliers
    \/ WriteTracks
    \/ WriteTimes
    \/ WriteCentroids
    \/ WriteFeature
    \/ FeatureDataReturns
    \/ ManifestCall

SpecDataset == InitDataset /\ [][NextDataset]_vars

----------------------------------------------------------------------------
(* Properties. *)

TableFrames == {table[i].frame : i \in Rows}
\* The call of update_and_write_bbox_data on the current frame has returned
\* and the frame's images are still at hand (the nucmorph order of calls).
BboxReturned == pc = "frames" /\ variant = "nucmorph" /\ sub = "bbox_done"
Remapped == pc = "frames" /\ sub # "load"

\* C1: after any sequence of update_and_write_bbox_data calls the four entries
\* of slot 0, in the table and in bounds.json, are (0,0,0,0).
C1_SlotZeroStaysZero ==
    /\ bbox_data # None => \A k \in 0..3 : bbox_data[k] = 0
    /\ bounds_json # <<>> => \A k \in 1..4 : bounds_json[k] = 0

C3_RemapCorrect ==
    Remapped =>
        LET rows == Range(FrameRows(table, Head(todo)))
        IN  /\ seg_remapped.rowHi = seg2d.rowHi
            /\ seg_remapped.colHi = seg2d.colHi
            /\ Blocks(seg_remapped) = Blocks(seg2d)
            /\ \A b \in Blocks(seg2d) :
                   /\ \A i \in rows :
                          seg2d.val[b[1]][b[2]] = table[i].label =>
                              seg_remapped.val[b[1]][b[2]] = InitialIndex(i) + 1
                   /\ seg2d.val[b[1]][b[2]] = 0 => seg_remapped.val[b[1]][b[2]] = 0
            /\ \A i \in rows : lut[table[i].label] = InitialIndex(i) + 1
            /\ lut[0] = 0

C3_Witness ==
    /\ Remapped
    /\ sub = "remapped"
    /\ 0 \in Values(seg2d)
    /\ \E i \in Range(FrameRows(table, Head(todo))) :
           /\ InitialIndex(i) > 0
           /\ table[i].label \in Values(seg2d)
           /\ table[i].label # InitialIndex(i) + 1

\* C4: after update_and_write_bbox_data has processed a frame, every pixel of
\* every global ID g >= 1 of the remapped image lies inside the box stored at
\* 4g..4g+3 (min_x, min_y, max_x, max_y), and a pixel of g lies on each of the
\* four boundary lines.
C4_BboxContainsAndTouches ==
    BboxReturned =>
        \A g \in Values(seg_remapped) \ {0} :
            LET cell == Cell(seg_remapped, g)
                min_x == bbox_data[4 * g]
                min_y == bbox_data[4 * g + 1]
                max_x == bbox_data[4 * g + 2]
                max_y == bbox_data[4 * g + 3]
            IN  /\ \A b \in cell :
                       /\ min_x <= ColLo(seg_remapped, b[2])
                       /\ seg_remapped.colHi[b[2]] <= max_x
                       /\ min_y <= RowLo(seg_remapped, b[1])
                       /\ seg_remapped.rowHi[b[1]] <= max_y
                /\ \E b \in cell : ColLo(seg_remapped, b[2]) = min_x
                /\ \E b \in cell : seg_remapped.colHi[b[2]] = max_x
                /\ \E b \in cell : RowLo(seg_remapped, b[1]) = min_y
                /\ \E b \in cell : seg_remapped.rowHi[b[1]] = max_y

\* C5: write_image encodes every id in [0, 2^24 - 1] into channels
\* (c0, c1, c2, c3) with c0 + c1*256 + c2*65536 = id, c0, c1, c2 in [0,255]
\* and c3 = 255.
C5_EncodingRoundTrips ==
    pc = "image_returned" =>
        \A b \in Blocks(seg_remapped) :
            LET id == seg_remapped.val[b[1]][b[2]]
                c == frame_png[Head(todo)].val[b[1]][b[2]]
            IN  id <= MaxEncodableId =>
                    /\ c[1] + c[2] * 256 + c[3] * 65536 = id
                    /\ \A k \in 1..3 : c[k] \in 0..255
                    /\ c[4] = 255

C5_Witness ==
    /\ pc = "image_returned"
    /\ MaxEncodableId \in Values(seg_remapped)
    /\ \E v \in Values(seg_remapped) : v > 65535 /\ v < MaxEncodableId

\* C6: if a remapped frame holds a global ID above 2^24 - 1, encoding the frame
\* image fails: write_image does not return having written the image.
C6_OversizedIdFails ==
    pc = "image_returned" => \A v \in Values(seg_remapped) : v <= MaxEncodableId

\* C7: if a bounding-box coordinate computed for a frame exceeds 65,535,
\* update_and_write_bbox_data fails instead of returning with the coordinate
\* stored modulo 2^16.
C7_OversizedCoordinateFails ==
    BboxReturned =>
        \A i \in DOMAIN lut \ {0} :
            LET cell == Cell(seg_remapped, lut[i])
            IN  cell # {} =>
                    /\ BboxMax(seg_remapped, cell)[1] <= 65535
                    /\ BboxMax(seg_remapped, cell)[2] <= 65535

\* The files a manifest names.
ManifestNamedFiles(m) ==
    Range(m.frames) \cup Range(m.features)
        \cup {m.outliers, m.tracks, m.times, m.centroids, m.bounds}

\* C8: when write_manifest has written manifest.json, every file the manifest
\* names (frame images, feature files, outliers, tracks, times, centroids,
\* bounds) exists in the dataset directory.
C8_ManifestFilesExist ==
    pc = "done" => ManifestNamedFiles(manifest_json) \subseteq files

\* C9: write_manifest emits frames = frame_0 .. frame_{num_frames-1} in order,
\* a features map with exactly one entry per feature name, the i-th name mapped
\* to feature_i.json, and the fixed names for outliers, tracks, times,
\* centroids and bounds.
C9_ManifestContents ==
    pc = "manifest_returned" =>
        /\ Len(manifest_json.frames) = margs.num_frames
        /\ \A i \in 1..margs.num_frames :
               manifest_json.frames[i] = FrameFileName(i - 1)
        /\ DOMAIN manifest_json.features = Range(margs.feature_names)
        /\ \A i \in 1..Len(margs.feature_names) :
               manifest_json.features[margs.feature_names[i]] = FeatureFileName(i - 1)
        /\ manifest_json.outliers = "outliers.json"
        /\ manifest_json.tracks = "tracks.json"
        /\ manifest_json.times = "times.json"
        /\ manifest_json.centroids = "centroids.json"
        /\ manifest_json.bounds = "bounds.json"

\* C10: when feature metadata is supplied and its length differs from the
\* number of feature names, the manifest is written without any
\* featureMetadata field; when the lengths are equal, featureMetadata holds
\* the i-th metadata entry under the i-th feature name for every i.
C10_MetadataAllOrNothing ==
    pc = "manifest_returned" =>
        /\ "manifest.json" \in files
        /\ Len(margs.feature_metadata) # Len(margs.feature_names) =>
               "featureMetadata" \notin DOMAIN manifest_json
        /\ Len(margs.feature_metadata) = Len(margs.feature_names) =>
               \A i \in 1..Len(margs.feature_names) :
                   /\ "featureMetadata" \in DOMAIN manifest_json
                   /\ manifest_json.featureMetadata[margs.feature_names[i]]
                          = margs.feature_metadata[i]

\* C11: whenever the writer holds a bounding-box table (a call of
\* update_and_write_bbox_data has completed, after every frame and not only
\* the last), bounds.json exists and its data is that table, entry for entry.
C11_BoundsFileMatchesTable ==
    bbox_data # None =>
        /\ "bounds.json" \in files
        /\ Len(bounds_json) = Cardinality(DOMAIN bbox_data)
        /\ \A k \in DOMAIN bbox_data : bounds_json[k + 1] = bbox_data[k]

C11_Witness ==
    /\ bbox_data # None
    /\ pc = "frames" /\ sub = "load" /\ todo # <<>>
    /\ \E k \in DOMAIN bbox_data : bbox_data[k] # 0

\* C12: once a step of a frame has raised, no later frame is processed (the
\* frames still to do, the stored files and the LUTs built stay as they are)
\* and manifest.json is never written.
C12_FailureStopsRun ==
    /\ [](raised # "" => "manifest.json" \notin files)
    /\ [][raised # "" => UNCHANGED <<todo, files, frame_png, bounds_json,
                                      manifest_json, luts>>]_vars

C12_Witness ==
    /\ raised = "image"
    /\ Len(todo) = 2
    /\ "bounds.json" \in files

\* C16: the bounding-box table does not exist before the first call of
\* update_and_write_bbox_data and exists after it; it has length 4 * (N + 1);
\* the first call leaves 0 everywhere outside the slots of the IDs of its
\* frame; the length never changes afterwards, and bounds.json always has
\* length 4 * (N + 1).
C16_BboxTableAllocatedOnce ==
    /\ [](bbox_data # None => DOMAIN bbox_data = 0..(4 * (NumRecords + 1) - 1))
    /\ [](bounds_json # <<>> => Len(bounds_json) = 4 * (NumRecords + 1))
    /\ [](raised = "" => (bbox_data = None <=> "bounds.json" \notin files))
    /\ [][(bbox_data = None /\ bbox_data' # None) =>
              \A k \in DOMAIN bbox_data' :
                  bbox_data'[k] # 0 => (k \div 4) \in Range(lut)]_vars
    /\ [][(bbox_data # None /\ bbox_data' # None) =>
              DOMAIN bbox_data' = DOMAIN bbox_data]_vars

C16_Witness ==
    /\ bbox_data # None
    /\ Cardinality(DOMAIN luts) = 2
    /\ pc = "manifest"
    /\ \E k \in DOMAIN bbox_data : k >= 4 * NumRecords /\ bbox_data[k] # 0

\* write_feature_data has not completed.
FeatureDataIncomplete ==
    \/ pc \in {"start", "outliers", "tracks", "times", "centroids"}
    \/ pc = "feature" /\ fi < Len(fargs.features)

\* C17: at any point of a run before write_feature_data has completed, none of
\* outliers.json, tracks.json, times.json, centroids.json, feature_<i>.json
\* exists on storage; at any point before write_manifest has completed,
\* manifest.json does not exist.
C17_NoPartialSeriesFiles ==
    /\ FeatureDataIncomplete =>
           files \cap FeatureDataFiles(Len(FeatureColumns(variant))) = {}
    /\ pc # "done" => "manifest.json" \notin files

\* C18: remap_segmented_image never fails on a label of the image that no
\* record of the frame has; every pixel carrying such a label is 0 in the
\* remapped image and every pixel carrying a record's label holds that
\* record's global ID.
C18_UnrecordedLabelMapsToZero ==
    /\ raised # "remap"
    /\ Remapped =>
           LET rows == Range(FrameRows(table, Head(todo)))
           IN  \A b \in Blocks(seg2d) :
                   LET v == seg2d.val[b[1]][b[2]]
                   IN  /\ (\A i \in rows : table[i].label # v) =>
                              seg_remapped.val[b[1]][b[2]] = 0
                       /\ \A i \in rows : table[i].label = v =>
                              seg_remapped.val[b[1]][b[2]] = InitialIndex(i) + 1

C18_Witness ==
    /\ Remapped
    /\ sub = "remapped"
    /\ LET labels == {table[i].label : i \in Range(FrameRows(table, Head(todo)))}
       IN  /\ \E v \in Values(seg2d) : v \notin labels /\ v > SetMax(labels)
           /\ \E v \in Values(seg2d) : v \in labels

\* C13: update_collection on a missing file or on a list of entries: if the
\* list has an entry with the name, that entry's path is replaced and the
\* list keeps its length and its other entries; otherwise exactly one entry
\* (name, path) is appended; on a missing file the result is the single
\* entry; in all cases the file then holds an entry with the name and path.
C13_UpdateCollectionUpserts ==
    (coll.calls > 0 /\ coll.prev.kind \in {"absent", "list"}) =>
        LET old == coll.prev.items
            new == coll.file.items
            e == [name |-> coll.name, path |-> coll.path]
        IN  /\ coll.file.kind = "list"
            /\ (\E i \in 1..Len(old) : old[i].name = coll.name) =>
                   /\ Len(new) = Len(old)
                   /\ \E i \in 1..Len(old) :
                          /\ old[i].name = coll.name
                          /\ new[i] = e
                          /\ \A j \in 1..Len(old) : j # i => new[j] = old[j]
            /\ (\A i \in 1..Len(old) : old[i].name # coll.name) =>
                   /\ Len(new) = Len(old) + 1
                   /\ new[Len(new)] = e
                   /\ \A j \in 1..Len(old) : new[j] = old[j]
            /\ coll.prev.kind = "absent" => (Len(new) = 1 /\ new[1] = e)
            /\ \E i \in 1..Len(new) : new[i] = e

C13_Witness ==
    /\ coll.calls > 0
    /\ coll.prev.kind = "list"
    /\ Len(coll.prev.items) = 2
    /\ coll.prev.items[2].name = coll.name
    /\ coll.prev.items[2].path # coll.path
    /\ coll.prev.items[1].name # coll.name

\* C14: for every feature array with a non-NaN value, the min and max written
\* to feature_<i>.json are the smallest and the largest non-NaN entry, and the
\* written data has the array's length and entries in order, NaN included.
C14_FeatureMinMaxIgnoreNaN ==
    pc = "feature" =>
        \A i \in 0..(fi - 1) :
            LET f == fargs.features[i + 1]
                js == series_json[FeatureFileName(i)]
                nums == {k \in 1..Len(f) : ~f[k].nan}
            IN  /\ Len(js.data) = Len(f)
                /\ \A k \in 1..Len(f) : js.data[k] = f[k]
                /\ nums # {} =>
                       /\ ~js.min.nan /\ ~js.max.nan
                       /\ \A k \in nums : js.min.v <= f[k].v /\ f[k].v <= js.max.v
                       /\ \E k \in nums : f[k].v = js.min.v
                       /\ \E k \in nums : f[k].v = js.max.v

C14_Witness ==
    /\ pc = "feature"
    /\ fi = 2
    /\ fargs.features[1][1].nan /\ ~fargs.features[1][2].nan
    /\ \A k \in 1..Len(fargs.features[2]) : ~fargs.features[2][k].nan
    /\ series_json[FeatureFileName(1)].min # series_json[FeatureFileName(1)].max

\* t is the fraction p/q (q > 0) with its fractional part dropped.
IsTruncationOf(t, p, q) ==
    IF p >= 0 THEN t >= 0 /\ t * q <= p /\ p < (t + 1) * q
    ELSE t <= 0 /\ t * q >= p /\ p > (t - 1) * q

\* C15: centroids.json holds 2 * (number of records) entries; entry 2i is
\* centroid_x[i] * scale and entry 2i + 1 is centroid_y[i] * scale, each
\* truncated toward zero.
C15_CentroidsInterleavedTruncated ==
    "centroids.json" \in DOMAIN series_json =>
        LET d == series_json["centroids.json"].data
            n == Len(fargs.centroids_x)
        IN  /\ Len(d) = 2 * n
            /\ \A i \in 0..(n - 1) :
                   /\ IsTruncationOf(d[2 * i + 1],
                                     fargs.centroids_x[i + 1] * fargs.scale.num,
                                     fargs.scale.den)
                   /\ IsTruncationOf(d[2 * i + 2],
                                     fargs.centroids_y[i + 1] * fargs.scale.num,
                                     fargs.scale.den)

C15_Witness ==
    /\ "centroids.json" \in DOMAIN series_json
    /\ fargs.scale = [num |-> 1, den |-> 2]
    /\ fargs.centroids_x[1] = 100 /\ fargs.centroids_y[1] = 50
    /\ fargs.centroids_x[2] = -5
    /\ series_json["centroids.json"].data[1] = 50
    /\ series_json["centroids.json"].data[2] = 25
    /\ series_json["centroids.json"].data[3] = -2

\* C19: in the dataset generate_test_data writes, the box of the object drawn
\* with pixel value p >= 1 is at entries 4p..4p+3 of bounds.json, entries 0..3
\* are 0 and bounds has length 4 * (N + 1), N the number of objects.
C19_GeneratorBoundsByPixelValue ==
    td.pc = "done" =>
        /\ Len(td.bounds_json) = 4 * (cells_per_frame * td.nframes + 1)
        /\ \A k \in 1..4 : td.bounds_json[k] = 0
        /\ \A p \in DOMAIN td.objects :
               /\ td.bounds_json[4 * p + 1] = td.objects[p].x_lo
               /\ td.bounds_json[4 * p + 2] = td.objects[p].y_lo
               /\ td.bounds_json[4 * p + 3] = td.objects[p].x_hi
               /\ td.bounds_json[4 * p + 4] = td.objects[p].y_hi

\* Global IDs of the records of the current frame whose label occurs in the
\* frame's image.
OwnedIds ==
    {InitialIndex(i) + 1 :
        i \in {r \in Range(FrameRows(table, Head(todo))) : table[r].label \in Values(seg2d)}}

\* C21: a call of update_and_write_bbox_data changes only entries of global
\* IDs that belong to records of the frame and occur in its image, and an
\* entry it changes has not been written before (it is still 0).
C21_OnlyOwnedEntriesChange ==
    [][(bbox_data' # None /\ bbox_data' # bbox_data) =>
           \A k \in DOMAIN bbox_data' :
               LET old == IF bbox_data = None THEN 0 ELSE bbox_data[k]
               IN  bbox_data'[k] # old =>
                       /\ (k \div 4) \in OwnedIds
                       /\ old = 0]_vars

\* The ids held by the pixels of a stored frame image.
PixelId(c) == c[1] + c[2] * 256 + c[3] * 65536
PixelIds(png) == {PixelId(c) : c \in Values(png)}

\* The image of frame f is known not to hold global ID g: the frame has not
\* been started, or its remapped or stored image has no pixel of g.
AbsentFromImage(g, f) ==
    \/ f \in DOMAIN frame_png /\ g \notin PixelIds(frame_png[f])
    \/ Remapped /\ f = Head(todo) /\ g \notin Values(seg_remapped)
    \/ f \in Range(todo) /\ (f # Head(todo) \/ sub = "load")

\* C22: the entry of the global ID of a record whose label does not occur in
\* its frame's image is (0,0,0,0) from the first call to the end of the run,
\* whatever other frames are processed.
C22_AbsentLabelKeepsZeroBox ==
    bbox_data # None =>
        \A i \in Rows :
            AbsentFromImage(InitialIndex(i) + 1, table[i].frame) =>
                \A k \in 0..3 : bbox_data[4 * (InitialIndex(i) + 1) + k] = 0

C22_Witness ==
    /\ bbox_data # None
    /\ pc = "manifest"
    /\ Cardinality(TableFrames) = 2
    /\ \E i \in Rows :
           /\ table[i].frame = 0
           /\ 0 \in DOMAIN frame_png
           /\ InitialIndex(i) + 1 \notin PixelIds(frame_png[0])
    /\ \E k \in DOMAIN bbox_data : k >= 4 /\ bbox_data[k] # 0

\* C24: the frames still to do are in increasing index order; while frame f is
\* being processed every frame with a smaller index is complete (remapped,
\* bounds.json and its image written) and no frame with a larger index has
\* been touched; a frame that has been processed is never taken up again.
C24_FramesInIndexOrder ==
    /\ \A k \in 1..(Len(todo) - 1) : todo[k] < todo[k + 1]
    /\ (pc = "frames" /\ raised = "") =>
           \A f \in TableFrames :
               /\ f < Head(todo) =>
                      /\ f \in DOMAIN luts
                      /\ "bounds.json" \in files
                      /\ FrameFileName(f) \in files
                      /\ f \notin Range(todo)
               /\ f > Head(todo) =>
                      /\ f \notin DOMAIN luts
                      /\ FrameFileName(f) \notin files
                      /\ f \in Range(todo)
               /\ (f = Head(todo) /\ sub = "load") =>
                      /\ f \notin DOMAIN luts
                      /\ FrameFileName(f) \notin files

C24_Witness ==
    /\ pc = "frames" /\ raised = ""
    /\ Cardinality(TableFrames) = 2
    /\ Len(todo) = 1
    /\ sub = "remapped"

\* C26: whenever the image file of a frame is on storage, bounds.json is on
\* storage and holds, for every global ID g >= 1 of that image, the box of g
\* at entries 4g..4g+3.
C26_ImageImpliesBounds ==
    \A f \in DOMAIN frame_png :
        /\ "bounds.json" \in files
        /\ \A g \in PixelIds(frame_png[f]) \ {0} :
               LET png == frame_png[f]
                   cell == {b \in Blocks(png) : PixelId(png.val[b[1]][b[2]]) = g}
                   mn == BboxMin(png, cell)
                   mx == BboxMax(png, cell)
               IN  /\ bounds_json[4 * g + 1] = mn[1] % USHORT
                   /\ bounds_json[4 * g + 2] = mn[2] % USHORT
                   /\ bounds_json[4 * g + 3] = mx[1] % USHORT
                   /\ bounds_json[4 * g + 4] = mx[2] % USHORT

\* C23: building the LUT and indexing the image through it never accesses an
\* index out of range, whatever labels the image and the table hold.
C23_LutIndexNeverOutOfRange == raised # "remap"

\* C25: once both orders have processed all frames, the two bounding-box
\* tables are equal in every slot, slot 0 included.
C25_OrderIndependent ==
    (perm.k > 0 /\ perm.k = Len(perm.frames)) => perm.fwd = perm.bwd

\* C27: the features map of the manifest has as many entries as feature files
\* feature_0 .. feature_{k-1} were written by write_feature_data, and every
\* such file is the value of some entry.
C27_FeatureMapMatchesFiles ==
    pc = "manifest_returned" =>
        LET written == {i \in 0..(fi - 1) : FeatureFileName(i) \in files}
        IN  /\ Cardinality(written) = Len(fargs.features)
            /\ Cardinality(DOMAIN manifest_json.features) = Cardinality(written)
            /\ \A i \in written :
                   FeatureFileName(i) \in Range(manifest_json.features)

\* update_collection has returned (it has been called and did not raise).
CollReturned == coll.calls > 0 /\ raised = ""
\* The list update_collection starts from.
CollBefore == IF coll.prev.kind = "list" THEN coll.prev.items ELSE <<>>

UniqueNames(c) == \A i, j \in 1..Len(c) : c[i].name = c[j].name => i = j

\* C28: after update_collection(file, name, path) every entry that was in the
\* file under another name is still there at its position with its name and
\* path, and the list has the old length or one more.
C28_OtherEntriesUntouched ==
    CollReturned =>
        /\ Len(coll.file.items) >= Len(CollBefore)
        /\ Len(coll.file.items) <= Len(CollBefore) + 1
        /\ \A j \in 1..Len(CollBefore) :
               CollBefore[j].name # coll.name => coll.file.items[j] = CollBefore[j]

C28_Witness ==
    /\ CollReturned
    /\ coll.prev.kind = "list"
    /\ Len(coll.prev.items) = 2
    /\ coll.prev.items[1].name = coll.name
    /\ coll.prev.items[1].path # coll.path
    /\ coll.prev.items[2].name # coll.name

\* C29: a call of update_collection with the name and path of the call just
\* before it leaves the file as that call left it; and a call on a collection
\* with at most one entry per name leaves at most one entry per name.
C29_Idempotent ==
    /\ []((CollReturned /\ UniqueNames(CollBefore)) => UniqueNames(coll.file.items))
    /\ [][(/\ coll.calls >= 1
           /\ raised' = ""
           /\ coll'.calls = coll.calls + 1
           /\ coll'.name = coll.name
           /\ coll'.path = coll.path) => coll'.file = coll.file]_vars

C29_Witness ==
    /\ CollReturned
    /\ coll.calls = 2
    /\ coll.prev.kind = "list"
    /\ coll.prev.items = <<[name |-> coll.name, path |-> coll.path]>>
    /\ coll.file = coll.prev

\* C30: on a file that cannot be read or is not JSON update_collection does not raise and writes
\* the list holding exactly the entry (name, path); whenever it returns, the
\* file is a list of entries.
C30_UnparseableTreatedAsEmpty ==
    coll.calls > 0 =>
        /\ coll.prev.kind \in {"garbage", "unreadable"} =>
               /\ raised = ""
               /\ coll.file = [kind |-> "list",
                               items |-> <<[name |-> coll.name, path |-> coll.path]>>]
        /\ raised = "" =>
               /\ coll.file.kind = "list"
               /\ \A i \in 1..Len(coll.file.items) : coll.file.items[i] \in Entries

C30_Witness ==
    /\ CollReturned
    /\ coll.prev.kind = "garbage"
    /\ Len(coll.file.items) = 1

====
